---- MODULE Spec2Model ----
(***************************************************************************)
(* A model of ParaDance's ranking-quality metric engine: the grouped top-N *)
(* selector, the coverage evaluators, the binning engine, the rank         *)
(* correlation evaluator, the evaluator dispatcher and the trial loop that *)
(* drives them.                                                            *)
(*                                                                         *)
(* A DataFrame is a function from column names to equally long sequences   *)
(* of integers; row i of the frame is position i of every column, and the  *)
(* original index label of row i is i.  Python's None is the string "None" *)
(* where a string is expected and the empty sequence where a number is     *)
(* expected (Some(x) is <<x>>).  Ratios are kept exact as records          *)
(* [num, den] and a float division by zero yields "nan" or "inf" as numpy  *)
(* does.                                                                   *)
(***************************************************************************)
EXTENDS Integers, Sequences, FiniteSets, TLC

VARIABLES
    df,               \* calculator.df / calculator.evaluated_dataframe
    bin_mappings,     \* calculator.bin_mappings: column name -> bins
    evaluator_flags,  \* the objective's registered specification lists
    target_columns,
    hyperparameters,
    groupbys,
    pc,               \* per trial: position in the trial / evaluation pass
    idx,              \* per trial: index of the specification being routed
    targets,          \* per trial: the target vector built so far
    proposal,         \* per trial: the composite score column it proposes
    call,             \* arguments of a direct call of one evaluator
    ret               \* what the direct call returned

vars == <<df, bin_mappings, evaluator_flags, target_columns, hyperparameters,
          groupbys, pc, idx, targets, proposal, call, ret>>

----------------------------------------------------------------------------
(* Bounds of the model. *)

MaxRows == 3

----------------------------------------------------------------------------
(* Generic helpers. *)

None == "None"

NoHyper == <<>>

Min(a, b) == IF a <= b THEN a ELSE b

Max(a, b) == IF a >= b THEN a ELSE b

Range(s) == {s[i] : i \in DOMAIN s}

\* Some sequence listing the elements of a finite set once each.
SetToSeq(S) ==
    CHOOSE q \in [1..Cardinality(S) -> S] : Range(q) = S

RECURSIVE SeqSum(_)
SeqSum(s) == IF s = <<>> THEN 0 ELSE Head(s) + SeqSum(Tail(s))

SeqsUpTo(S, n) == UNION {[1..m -> S] : m \in 0..n}

\* A missing value (NaN) of a target column; no data value equals it.
NaN == 0 - 999

\* Series.sum(): missing values are skipped.
NanSum(s) == SeqSum([i \in DOMAIN s |-> IF s[i] = NaN THEN 0 ELSE s[i]])

\* Series.nunique(): missing values are not counted.
NUnique(s) == Cardinality(Range(s) \ {NaN})

NRows(data) == Len(data[CHOOSE c \in DOMAIN data : TRUE])

----------------------------------------------------------------------------
(* DataFrame.sort_values(by, ascending): rows are compared on the tuple of *)
(* their values in the `by` columns, every column in the same direction;   *)
(* rows with equal keys keep their input order (lexsort is stable).        *)

KeyOf(data, cols, i) == [j \in 1..Len(cols) |-> data[cols[j]][i]]

RECURSIVE LexLess(_, _)
LexLess(a, b) ==
    IF a = <<>> THEN FALSE
    ELSE IF Head(a) # Head(b) THEN Head(a) < Head(b)
    ELSE LexLess(Tail(a), Tail(b))

Before(data, by, ascending, i, j) ==
    LET ki == KeyOf(data, by, i)
        kj == KeyOf(data, by, j)
    IN  IF ki = kj THEN i < j
        ELSE IF ascending THEN LexLess(ki, kj) ELSE LexLess(kj, ki)

\* The sorted frame, as the sequence of original row labels.
sort_values(data, by, ascending) ==
    LET n == NRows(data)
        Pos(i) == 1 + Cardinality({j \in 1..n : Before(data, by, ascending, j, i)})
    IN  [p \in 1..n |-> CHOOSE i \in 1..n : Pos(i) = p]

\* Every row order a sort on `by` may produce when the order of rows with
\* equal keys is left to the sort algorithm (sort_values with one key runs
\* numpy's default quicksort, which is not stable).
SortOrders(data, by, ascending) ==
    LET n == NRows(data)
    IN  {o \in [1..n -> 1..n] :
            /\ \A p, q \in 1..n : p # q => o[p] # o[q]
            /\ \A p, q \in 1..n :
                  p < q => KeyOf(data, by, o[p]) = KeyOf(data, by, o[q])
                           \/ Before(data, by, ascending, o[p], o[q])}

----------------------------------------------------------------------------
(* Grouped Top-N Selector (top_coverage_evaluator.py).                     *)

\* The distinct keys of the group columns in ascending order: the index of
\* DataFrame.value_counts(group_cols, sort=False), which is built by a
\* groupby that sorts its keys.
GroupKeys(data, group_cols) ==
    LET n == NRows(data)
        keys == {KeyOf(data, group_cols, i) : i \in 1..n}
        Pos(k) == 1 + Cardinality({h \in keys : LexLess(h, k)})
    IN  [p \in 1..Cardinality(keys) |-> CHOOSE k \in keys : Pos(k) = p]

GroupSize(data, group_cols, key) ==
    Cardinality({i \in 1..NRows(data) : KeyOf(data, group_cols, i) = key})

value_counts(data, group_cols) ==
    LET keys == GroupKeys(data, group_cols)
    IN  [p \in 1..Len(keys) |-> GroupSize(data, group_cols, keys[p])]

\* np.hstack(counts.map(lambda x: range(x)).values)
RECURSIVE hstack(_)
hstack(counts) ==
    IF counts = <<>> THEN <<>>
    ELSE [i \in 1..Head(counts) |-> i - 1] \o hstack(Tail(counts))

\* frame[mask]: the rows of `rows` at the positions in `keep`, in order.
BoolIndex(rows, keep) ==
    LET Pos(p) == Cardinality({q \in keep : q <= p})
    IN  [r \in 1..Cardinality(keep) |-> rows[CHOOSE p \in keep : Pos(p) = r]]

\* Returns [error, index]: index is the returned frame, as the sequence of
\* the original index labels of its rows.
pd_data_group_top_n(data, group_cols, val_cols, ascending, k) ==
    LET datac  == sort_values(data, group_cols \o val_cols, ascending)
        counts == value_counts(data, group_cols)
        rank0  == hstack(counts)
    IN  IF counts = <<>>
        THEN [error |-> "ValueError", index |-> <<>>]
        ELSE [error |-> "none",
              index |-> BoolIndex(datac, {p \in 1..Len(datac) : rank0[p] < k})]

----------------------------------------------------------------------------
(* Coverage evaluators (top_coverage_evaluator.py).                        *)

\* numpy's scalar division: a zero denominator gives nan or a signed
\* infinity (with a RuntimeWarning), never an exception.
Divide(num, den) ==
    IF den # 0 THEN [kind |-> "float", num |-> num, den |-> den]
    ELSE IF num = 0 THEN [kind |-> "nan", num |-> num, den |-> den]
    ELSE IF num > 0 THEN [kind |-> "inf", num |-> num, den |-> den]
    ELSE [kind |-> "-inf", num |-> num, den |-> den]

Raise(e) == [kind |-> e, num |-> 0, den |-> 0]

IsError(v) == v.kind \in {"KeyError", "ValueError"}

\* A float hyperparameter is the exact fraction num/den, den > 0.
Frac(n, d) == [num |-> n, den |-> d]

Head005 == Frac(1, 20)

\* int(x), for x >= 0.
Trunc(x) == x.num \div x.den

\* rank < x for an integer rank is rank < Ceil(x).
Ceil(x) == 0 - ((0 - x.num) \div x.den)

\* Mutant: the slice size taken from the complement of the head fraction.
TopRowsCountComplement(n, head_percentage) ==
    n - Trunc(Frac(n * head_percentage.num, head_percentage.den))

\* top_rows_count = int(len(df) * head_percentage)
TopRowsCount(n, head_percentage) ==
    Trunc(Frac(n * head_percentage.num, head_percentage.den))

\* The decorator's frame: no mask column means no filtering.
evaluated_dataframe(data, mask_column) == data

\* Mutant: the slice is taken from the tail of the sorted frame.
calculate_top_coverage_tail(data, target_column, head_percentage, pd_column, order) ==
    LET head == IF head_percentage = NoHyper THEN Head005 ELSE head_percentage[1]
        frame == evaluated_dataframe(data, None)
        n == NRows(frame)
        total_sum == NanSum(frame[target_column])
        top_rows_count == Min(TopRowsCount(n, head), n)
        top_sum == NanSum([p \in 1..top_rows_count |->
                              frame[target_column][order[n + 1 - p]]])
    IN  Divide(top_sum, total_sum)

\* `order` is the row order sort_values(pd_column, ascending=False) gives.
calculate_top_coverage(data, target_column, head_percentage, pd_column, order) ==
    LET head == IF head_percentage = NoHyper THEN Head005 ELSE head_percentage[1]
        frame == evaluated_dataframe(data, None)
        total_sum == NanSum(frame[target_column])
        top_rows_count == Min(TopRowsCount(NRows(frame), head), NRows(frame))
        top_sum == NanSum([p \in 1..top_rows_count |-> frame[target_column][order[p]]])
    IN  Divide(top_sum, total_sum)

\* Mutant: is_unique marks the duplicated rows (the negation is dropped).
calculate_distinct_top_coverage_dup(data, target_column, head_percentage, pd_column, order) ==
    LET head == IF head_percentage = NoHyper THEN Head005 ELSE head_percentage[1]
        frame == evaluated_dataframe(data, None)
        total_ids == NUnique(frame[target_column])
        sorted == [p \in 1..NRows(frame) |-> frame[target_column][order[p]]]
        is_unique == [p \in 1..NRows(frame) |->
                         \E q \in 1..(p - 1) : sorted[q] = sorted[p]]
        top_rows_count == Min(TopRowsCount(NRows(frame), head), NRows(frame))
        top_sum == Cardinality({p \in 1..top_rows_count : is_unique[p]})
    IN  Divide(top_sum, total_ids)

calculate_distinct_top_coverage(data, target_column, head_percentage, pd_column, order) ==
    LET head == IF head_percentage = NoHyper THEN Head005 ELSE head_percentage[1]
        frame == evaluated_dataframe(data, None)
        total_ids == NUnique(frame[target_column])
        sorted == [p \in 1..NRows(frame) |-> frame[target_column][order[p]]]
        is_unique == [p \in 1..NRows(frame) |->
                         \A q \in 1..(p - 1) : sorted[q] # sorted[p]]
        top_rows_count == Min(TopRowsCount(NRows(frame), head), NRows(frame))
        top_sum == Cardinality({p \in 1..top_rows_count : is_unique[p]})
    IN  Divide(top_sum, total_ids)

DefaultTopN == 100

calculate_top_n_coverage(data, target_column, groupby, top_n, pd_column) ==
    LET k == IF top_n = NoHyper THEN DefaultTopN ELSE Ceil(top_n[1])
        frame == evaluated_dataframe(data, None)
        total_sum == NanSum(frame[target_column])
        group_top_df == pd_data_group_top_n(frame, <<groupby>>, <<pd_column>>, FALSE, k)
        top_sum == NanSum([p \in 1..Len(group_top_df.index) |->
                              frame[target_column][group_top_df.index[p]]])
    IN  IF groupby \notin DOMAIN frame THEN Raise("KeyError")
        ELSE IF group_top_df.error # "none" THEN Raise(group_top_df.error)
        ELSE Divide(top_sum, total_sum)

----------------------------------------------------------------------------
(* Binning Engine (tau_evaluator.py).  Quantile cut points are kept exact: *)
(* the j-th of num_bins - 1 cut points over the m sorted non-zero values a *)
(* lies at virtual index j*(m-1)/num_bins, between a[lo] and a[lo+1].      *)

\* The values of s in ascending order.
SortAsc(s) ==
    LET Pos(i) == 1 + Cardinality({j \in DOMAIN s :
                                     s[j] < s[i] \/ (s[j] = s[i] /\ j < i)})
    IN  [p \in 1..Len(s) |-> s[CHOOSE i \in DOMAIN s : Pos(i) = p]]

\* Mutant: the comparison with the cut point is reversed.
QuantileGe(a, j, num_bins, x) ==
    LET v  == j * (Len(a) - 1)
        lo == v \div num_bins
        r  == v % num_bins
    IN  IF r = 0 THEN a[lo + 1] * num_bins >= x * num_bins
        ELSE a[lo + 1] * num_bins + r * (a[lo + 2] - a[lo + 1]) >= x * num_bins

\* np.quantile(a, j/num_bins) <= x, for a sorted and non-empty (linear
\* interpolation), both sides scaled by num_bins.
QuantileLe(a, j, num_bins, x) ==
    LET v  == j * (Len(a) - 1)
        lo == v \div num_bins
        r  == v % num_bins
    IN  IF r = 0 THEN a[lo + 1] * num_bins <= x * num_bins
        ELSE a[lo + 1] * num_bins + r * (a[lo + 2] - a[lo + 1]) <= x * num_bins

\* Mutant: the upper end point 1.0 of linspace is kept as a cut point.
digitize_inclusive(a, num_bins, x) ==
    Cardinality({j \in 1..num_bins : QuantileLe(a, j, num_bins, x)})

\* np.digitize(x, cut points): the number of cut points <= x.
digitize(a, num_bins, x) ==
    Cardinality({j \in 1..(num_bins - 1) : QuantileLe(a, j, num_bins, x)})

\* Mutant: the non-zero bin indices are not shifted up by one.
map_to_bins_unshifted(data, num_bins) ==
    IF Len(data) = 0 THEN <<>>
    ELSE IF \A i \in DOMAIN data : data[i] = 0 THEN [i \in DOMAIN data |-> 0]
    ELSE LET non_zero_data == SortAsc(SelectSeq(data, LAMBDA x : x # 0))
             bins == Min(num_bins, Len(non_zero_data))
         IN  [i \in DOMAIN data |->
                 IF data[i] = 0 THEN 0
                 ELSE digitize(non_zero_data, bins, data[i])]

map_to_bins(data, num_bins) ==
    IF Len(data) = 0 THEN <<>>
    ELSE IF \A i \in DOMAIN data : data[i] = 0 THEN [i \in DOMAIN data |-> 0]
    ELSE LET non_zero_data == SortAsc(SelectSeq(data, LAMBDA x : x # 0))
             bins == Min(num_bins, Len(non_zero_data))
         IN  [i \in DOMAIN data |->
                 IF data[i] = 0 THEN 0
                 ELSE digitize(non_zero_data, bins, data[i]) + 1]

----------------------------------------------------------------------------
(* scipy.stats.kendalltau (tau-b): S / sqrt(A * B) with S the concordant   *)
(* minus the discordant pairs, A and B the pairs not tied in x and in y;   *)
(* nan when x or y is constant or empty.                                   *)

Sgn(x) == IF x < 0 THEN 0 - 1 ELSE IF x > 0 THEN 1 ELSE 0

Pairs(n) == {pr \in (1..n) \X (1..n) : pr[1] < pr[2]}

kendalltau(x, y) ==
    LET n == Len(x)
        Concord(pr) == Sgn(x[pr[1]] - x[pr[2]]) * Sgn(y[pr[1]] - y[pr[2]])
        s == Cardinality({pr \in Pairs(n) : Concord(pr) = 1})
               - Cardinality({pr \in Pairs(n) : Concord(pr) = 0 - 1})
        a == Cardinality({pr \in Pairs(n) : x[pr[1]] # x[pr[2]]})
        b == Cardinality({pr \in Pairs(n) : y[pr[1]] # y[pr[2]]})
    IN  IF a = 0 \/ b = 0 THEN [kind |-> "nan", s |-> 0, a |-> 0, b |-> 0]
        ELSE [kind |-> "tau", s |-> s, a |-> a, b |-> b]

----------------------------------------------------------------------------
(* Rank correlation evaluator (tau_evaluator.py).                          *)

BinColumn(target_column) ==
    CASE target_column = "label" -> "label_bin"
      [] target_column = "overall_score" -> "overall_score_bin"
      [] target_column = "uid" -> "uid_bin"
      [] OTHER -> "bin_bin"

MaxDefaultBins == 100

\* df[column] = values
SetColumn(data, column, values) ==
    [c \in DOMAIN data \cup {column} |-> IF c = column THEN values ELSE data[c]]

\* The rows of a column whose groupby value is g, in row order.
GroupRows(data, groupby, g) ==
    LET rows == {i \in 1..NRows(data) : data[groupby][i] = g}
    IN  BoolIndex([i \in 1..NRows(data) |-> i], rows)

\* Returns the value with the calculator's state after the call:
\* [tau, label_bins, bin_mappings, df].
calculate_tau(data, mappings, target_column, groupby, num_bins, pd_column) ==
    LET bins == IF num_bins = NoHyper
                THEN Min(NUnique(data[target_column]), MaxDefaultBins)
                ELSE Trunc(num_bins[1])
        hit == target_column \in DOMAIN mappings
        label_bins == IF hit THEN mappings[target_column]
                      ELSE map_to_bins(data[target_column], bins)
        mappings2 == IF hit THEN mappings
                     ELSE [c \in DOMAIN mappings \cup {target_column} |->
                             IF c = target_column THEN label_bins ELSE mappings[c]]
        bin_column == BinColumn(target_column)
        data2 == SetColumn(data, bin_column, label_bins)
        keys == SortAsc(SetToSeq(Range(data[groupby])))
        grouped == [p \in 1..Len(keys) |->
                      LET rows == GroupRows(data2, groupby, keys[p])
                      IN  kendalltau([r \in 1..Len(rows) |-> data2[bin_column][rows[r]]],
                                     [r \in 1..Len(rows) |-> data2[pd_column][rows[r]]])]
        overall_score_bins == map_to_bins(data[pd_column], bins)
    IN  IF groupby # None
        THEN [tau |-> [kind |-> "mean", taus |-> grouped],
              label_bins |-> label_bins, bin_mappings |-> mappings2, df |-> data2]
        ELSE [tau |-> kendalltau(label_bins, overall_score_bins),
              label_bins |-> label_bins, bin_mappings |-> mappings2, df |-> data]

----------------------------------------------------------------------------
(* Frames and idle values shared by the specifications.                    *)

Trials == {1, 2}

Frames(labels, scores, uids, n) ==
    UNION {[label : [1..m -> labels], overall_score : [1..m -> scores],
            uid : [1..m -> uids]] : m \in 0..n}

Pending == [kind |-> "pending", num |-> 0, den |-> 0]

IdleTrials ==
    /\ pc = [t \in Trials |-> "idle"]
    /\ idx = [t \in Trials |-> 0]
    /\ targets = [t \in Trials |-> <<>>]
    /\ proposal = [t \in Trials |-> <<>>]

NoEvaluators ==
    /\ evaluator_flags = <<>>
    /\ target_columns = <<>>
    /\ hyperparameters = <<>>
    /\ groupbys = <<>>

trialVars == <<pc, idx, targets, proposal>>

evaluatorVars == <<evaluator_flags, target_columns, hyperparameters, groupbys>>

----------------------------------------------------------------------------
(* Evaluator Dispatcher (evaluate_targets.py).                             *)

RecognizedFlags ==
    {"pearson", "portfolio", "distinct_count_portfolio", "top_coverage",
     "top_n_coverage", "distinct_top_coverage", "wuauc", "auc", "woauc",
     "logmse", "neg_rank_ratio", "inverse_pairs", "tau"}

\* The calculator method the if/elif chain calls for a flag; None when no
\* branch matches (the chain has no else).
Route(flag) ==
    CASE flag = "pearson" -> "calculate_corrcoef"
      [] flag = "portfolio" -> "calculate_portfolio_concentration"
      [] flag = "distinct_count_portfolio"
            -> "calculate_distinct_count_portfolio_concentration"
      [] flag = "top_coverage" -> "calculate_top_coverage"
      [] flag = "top_n_coverage" -> "calculate_top_n_coverage"
      [] flag = "distinct_top_coverage" -> "calculate_distinct_top_coverage"
      [] flag = "wuauc" -> "calculate_wuauc"
      [] flag = "auc" -> "calculate_wuauc"
      [] flag = "woauc" -> "calculate_woauc"
      [] flag = "logmse" -> "calculate_log_mse"
      [] flag = "neg_rank_ratio" -> "calculate_neg_rank_ratio"
      [] flag = "inverse_pairs" -> "calculate_inverse_pair"
      [] flag = "tau" -> "calculate_tau"
      [] OTHER -> None

\* What an evaluator defined outside these files returns: an opaque value
\* naming the call; `part` is what the dispatcher makes of it.
External(fn, part) == [kind |-> "external", fn |-> fn, part |-> part]

\* What the dispatcher appends for the external evaluators: the value, the
\* second component of a returned pair, or the sum of a returned list.
Appended(flag) ==
    CASE flag \in {"portfolio", "distinct_count_portfolio"}
            -> External(Route(flag), "second")
      [] flag = "woauc" -> External(Route(flag), "sum")
      [] OTHER -> External(Route(flag), "all")

\* One iteration of the loop over the zipped specification lists: the
\* calculator's state after it and the element appended, if any.
\* Returns [df, bin_mappings, appended, entry, raised].
Iteration(data, mappings, flag, target_column, hyperparameter, groupby, pd_score_column) ==
    LET by == Route(flag)
        Same(v) == [df |-> data, bin_mappings |-> mappings,
                    appended |-> ~IsError(v), raised |-> IsError(v),
                    entry |-> [by |-> by, flag |-> flag,
                               target_column |-> target_column,
                               hyperparameter |-> hyperparameter,
                               groupby |-> groupby, value |-> v]]
    IN  CASE flag = "top_coverage" ->
               Same(calculate_top_coverage(data, target_column, hyperparameter,
                      pd_score_column,
                      sort_values(data, <<pd_score_column>>, FALSE)))
          [] flag = "distinct_top_coverage" ->
               Same(calculate_distinct_top_coverage(data, target_column,
                      hyperparameter, pd_score_column,
                      sort_values(data, <<pd_score_column>>, FALSE)))
          [] flag = "top_n_coverage" ->
               Same(calculate_top_n_coverage(data, target_column, groupby,
                      hyperparameter, pd_score_column))
          [] flag = "tau" ->
               LET r == calculate_tau(data, mappings, target_column, groupby,
                                      hyperparameter, pd_score_column)
               IN  [df |-> r.df, bin_mappings |-> r.bin_mappings,
                    appended |-> TRUE, raised |-> FALSE,
                    entry |-> [by |-> by, flag |-> flag,
                               target_column |-> target_column,
                               hyperparameter |-> hyperparameter,
                               groupby |-> groupby, value |-> r.tau]]
          [] flag \in RecognizedFlags -> Same(Appended(flag))
          [] OTHER ->
               [df |-> data, bin_mappings |-> mappings,
                appended |-> FALSE, raised |-> FALSE,
                entry |-> [by |-> by, flag |-> flag,
                           target_column |-> target_column,
                           hyperparameter |-> hyperparameter,
                           groupby |-> groupby, value |-> Pending]]

\* zip(...) stops at the shortest list.
ZipLen == Min(Min(Len(evaluator_flags), Len(target_columns)),
              Min(Len(hyperparameters), Len(groupbys)))

\* The loop body for trial t, one specification per step.
EvaluateStep(t) ==
    /\ pc[t] = "evaluate"
    /\ idx[t] < ZipLen
    /\ LET i == idx[t] + 1
           r == Iteration(df, bin_mappings, evaluator_flags[i],
                          target_columns[i], hyperparameters[i], groupbys[i],
                          "overall_score")
       IN  /\ df' = r.df
           /\ bin_mappings' = r.bin_mappings
           /\ targets' = [targets EXCEPT ![t] =
                            IF r.appended THEN Append(@, r.entry) ELSE @]
           /\ pc' = [pc EXCEPT ![t] = IF r.raised THEN "raised" ELSE @]
           /\ idx' = [idx EXCEPT ![t] = i]
    /\ UNCHANGED <<evaluatorVars, proposal, call, ret>>

\* return targets
Return(t) ==
    /\ pc[t] = "evaluate"
    /\ idx[t] = ZipLen
    /\ pc' = [pc EXCEPT ![t] = "done"]
    /\ UNCHANGED <<df, bin_mappings, evaluatorVars, idx, targets, proposal,
                   call, ret>>

----------------------------------------------------------------------------
(* Registration of the evaluators (pipeline/base.py).                      *)

\* itertools.zip_longest over the configured lists: position i of a list
\* shorter than the longest reads as None.
LongestLen(lists) ==
    CHOOSE n \in {Len(lists[k]) : k \in DOMAIN lists} :
        \A k \in DOMAIN lists : Len(lists[k]) <= n

Padded(list, n, fill) ==
    [i \in 1..n |-> IF i <= Len(list) THEN list[i] ELSE fill]

\* _add_evaluators: every zipped tuple is registered with the objective,
\* which keeps one list per option.
AddEvaluators ==
    /\ call.fn = "_add_evaluators"
    /\ LET n == LongestLen(<<call.flags, call.target_columns,
                             call.hyperparameters, call.groupbys>>)
       IN  /\ evaluator_flags' = Padded(call.flags, n, None)
           /\ target_columns' = Padded(call.target_columns, n, None)
           /\ hyperparameters' = Padded(call.hyperparameters, n, NoHyper)
           /\ groupbys' = Padded(call.groupbys, n, None)
    /\ call' = [call EXCEPT !.fn = "evaluate_targets"]
    /\ pc' = [pc EXCEPT ![1] = "evaluate"]
    /\ UNCHANGED <<df, bin_mappings, idx, targets, proposal, ret>>

----------------------------------------------------------------------------
(* One evaluation pass on one calculator: the pipeline registers the       *)
(* configured evaluators and evaluate_targets routes them in order.        *)

MaxSpecs == 2

ConfigFlags == RecognizedFlags \cup {"ndcg"}

PassFrames ==
    {[label |-> <<1, 0, 2>>, overall_score |-> <<2, 1, 3>>, uid |-> <<1, 1, 2>>],
     [label |-> <<0, 0>>, overall_score |-> <<1, 1>>, uid |-> <<1, 2>>]}

BaseColumns == {"label", "overall_score", "uid"}

Init ==
    /\ df \in PassFrames
    /\ bin_mappings = <<>>
    /\ \E n \in 0..MaxSpecs :
          call \in [fn : {"_add_evaluators"},
                    flags : SeqsUpTo(ConfigFlags, n),
                    target_columns : {[i \in 1..n |-> "label"]},
                    hyperparameters : {[i \in 1..m |-> <<Frac(1, 1)>>] : m \in 0..n},
                    groupbys : {[i \in 1..m |-> "uid"] : m \in 0..n}]
    /\ ret = <<>>
    /\ IdleTrials
    /\ NoEvaluators

Next ==
    \/ AddEvaluators
    \/ EvaluateStep(1)
    \/ Return(1)

Spec == Init /\ [][Next]_vars

----------------------------------------------------------------------------
(* C1, C2, C7: the evaluation pass.                                        *)

Returned == pc[1] = "done"

OneToOne ==
    /\ Len(targets[1]) = Len(evaluator_flags)
    /\ \A i \in DOMAIN evaluator_flags :
          /\ targets[1][i].flag = evaluator_flags[i]
          /\ targets[1][i].by = Route(evaluator_flags[i])
          /\ targets[1][i].target_column = target_columns[i]
          /\ targets[1][i].hyperparameter = hyperparameters[i]
          /\ targets[1][i].groupby = groupbys[i]

\* C1: for every specification list of length N the returned target vector
\* has length N and element i comes from the evaluator matching
\* specification i.
C1_TargetVectorOneToOne == Returned => OneToOne

\* The same statement for lists that hold recognized flags only.
RecognizedOneToOne ==
    (Returned /\ \A i \in DOMAIN evaluator_flags :
                    evaluator_flags[i] \in RecognizedFlags) => OneToOne

HasUnrecognizedFlag ==
    \E i \in DOMAIN evaluator_flags : evaluator_flags[i] \notin RecognizedFlags

\* C2: a specification with an unrecognized (or missing) metric kind ends
\* the evaluation call in an error; no target vector is returned.
C2_UnrecognizedFlagIsError == HasUnrecognizedFlag => ~Returned

\* C7: the calculator's dataframe has the same columns and rows after an
\* evaluation pass as before it.
C7_ColumnSetUnchanged ==
    Returned => (DOMAIN df = BaseColumns /\ df \in PassFrames)

----------------------------------------------------------------------------
(* Parallel trials on one calculator (BasePipeline._optimize runs the      *)
(* optimizer with parallel=True by default).  A trial writes the composite *)
(* score column it proposes into the shared dataframe and then runs the    *)
(* evaluation pass; each evaluator call is one step.                       *)

TrialFrame ==
    [label |-> <<1, 0, 2, 1>>, overall_score |-> <<0, 0, 0, 0>>,
     uid |-> <<1, 1, 2, 2>>]

Proposals == {<<1, 2, 3, 4>>, <<4, 3, 2, 1>>, <<2, 1, 2, 1>>}

TrialFlags == {"tau", "top_coverage", "distinct_top_coverage"}

InitTrials ==
    /\ df = TrialFrame
    /\ bin_mappings = <<>>
    /\ \E n \in 1..MaxSpecs :
          /\ evaluator_flags \in [1..n -> TrialFlags]
          /\ target_columns = [i \in 1..n |-> "label"]
          /\ hyperparameters \in {[i \in 1..n |-> NoHyper],
                                  [i \in 1..n |-> <<Frac(1, 2)>>]}
          /\ groupbys \in {[i \in 1..n |-> None], [i \in 1..n |-> "uid"]}
    /\ pc = [t \in Trials |-> "start"]
    /\ idx = [t \in Trials |-> 0]
    /\ targets = [t \in Trials |-> <<>>]
    /\ proposal \in [Trials -> Proposals]
    /\ call = [fn |-> "optimize_run"]
    /\ ret = <<>>

\* The trial's objective writes its composite score into calculator.df.
GetOverallScore(t) ==
    /\ pc[t] = "start"
    /\ df' = SetColumn(df, "overall_score", proposal[t])
    /\ pc' = [pc EXCEPT ![t] = "evaluate"]
    /\ UNCHANGED <<bin_mappings, evaluatorVars, idx, targets, proposal, call, ret>>

NextTrials ==
    \E t \in Trials : GetOverallScore(t) \/ EvaluateStep(t) \/ Return(t)

SpecTrials == InitTrials /\ [][NextTrials]_vars

\* The target vector a trial gets when it runs alone: the evaluation pass
\* from specification i on, on a calculator of its own.
RECURSIVE RunFrom(_, _, _, _)
RunFrom(data, mappings, i, acc) ==
    IF i > ZipLen THEN acc
    ELSE LET r == Iteration(data, mappings, evaluator_flags[i],
                            target_columns[i], hyperparameters[i], groupbys[i],
                            "overall_score")
         IN  IF r.raised THEN acc
             ELSE RunFrom(r.df, r.bin_mappings, i + 1,
                          IF r.appended THEN Append(acc, r.entry) ELSE acc)

RunAlone(t) ==
    RunFrom(SetColumn(TrialFrame, "overall_score", proposal[t]), <<>>, 1, <<>>)

----------------------------------------------------------------------------
(* Equality of returned values as numbers.                                 *)

TauSame(u, v) ==
    IF u.kind = "nan" \/ v.kind = "nan" THEN u.kind = v.kind
    ELSE Sgn(u.s) * u.s * u.s * v.a * v.b = Sgn(v.s) * v.s * v.s * u.a * u.b

HasNan(taus) == \E i \in DOMAIN taus : taus[i].kind = "nan"

\* tau is -1, 0 or 1
UnitTau(u) == u.kind = "tau" /\ (u.s = 0 \/ u.s * u.s = u.a * u.b)

\* np.mean of the group taus: nan when a group's tau is nan.  Means of
\* taus in {-1, 0, 1} are compared as numbers, other means group by group.
MeanSame(u, v) ==
    IF HasNan(u.taus) \/ HasNan(v.taus) THEN HasNan(u.taus) /\ HasNan(v.taus)
    ELSE IF /\ \A i \in DOMAIN u.taus : UnitTau(u.taus[i])
            /\ \A i \in DOMAIN v.taus : UnitTau(v.taus[i])
         THEN SeqSum([i \in DOMAIN u.taus |-> Sgn(u.taus[i].s)]) * Len(v.taus)
                = SeqSum([i \in DOMAIN v.taus |-> Sgn(v.taus[i].s)]) * Len(u.taus)
    ELSE /\ Len(u.taus) = Len(v.taus)
         /\ \A i \in DOMAIN u.taus : TauSame(u.taus[i], v.taus[i])

FloatSame(u, v) ==
    IF u.kind = "float" /\ v.kind = "float" THEN u.num * v.den = v.num * u.den
    ELSE u.kind = v.kind

SameValue(u, v) ==
    CASE u.kind \in {"tau", "nan"} /\ v.kind \in {"tau", "nan"}
            /\ "s" \in DOMAIN u /\ "s" \in DOMAIN v -> TauSame(u, v)
      [] u.kind = "mean" /\ v.kind = "mean" -> MeanSame(u, v)
      [] u.kind \in {"float", "nan", "inf", "-inf"}
            /\ v.kind \in {"float", "nan", "inf", "-inf"}
            /\ "num" \in DOMAIN u /\ "num" \in DOMAIN v -> FloatSame(u, v)
      [] OTHER -> FALSE

SameVector(x, y) ==
    /\ Len(x) = Len(y)
    /\ \A i \in DOMAIN x : x[i].by = y[i].by /\ SameValue(x[i].value, y[i].value)

----------------------------------------------------------------------------
(* C5: parallel trials.                                                    *)

\* C5: under every interleaving, a trial's evaluation returns the target
\* vector it would return running alone on its own score column.
C5_TrialsIsolated ==
    \A t \in Trials : pc[t] = "done" => SameVector(targets[t], RunAlone(t))

----------------------------------------------------------------------------
(* Direct calls of calculate_tau on one calculator, between which the      *)
(* target column may be assigned new values.                               *)

MaxOps == 3

MaxBins == 3

CacheColumns == {<<0, 1, 2, 3>>, <<3, 1, 0, 2>>, <<1, 1, 2, 2>>, <<0, 0, 0, 0>>}

ScoreColumns == {<<1, 2, 3, 4>>, <<0 - 1, 0, 1, 2>>}

CacheFrames ==
    [label : CacheColumns, overall_score : ScoreColumns,
     uid : {<<1, 1, 2, 2>>}]

BinArgs == {NoHyper} \cup {<<Frac(b, 1)>> : b \in 1..MaxBins}

InitCache ==
    /\ df \in CacheFrames
    /\ bin_mappings = <<>>
    /\ call = [fn |-> "init", groupby |-> None, num_bins |-> NoHyper, n |-> 0,
               assigned |-> FALSE]
    /\ ret = [tau |-> Pending, label_bins |-> <<>>]
    /\ IdleTrials
    /\ NoEvaluators

\* calculator.df[target_column] = values
AssignColumn(values) ==
    /\ call.n < MaxOps
    /\ values # df["label"]
    /\ df' = SetColumn(df, "label", values)
    /\ call' = [call EXCEPT !.fn = "assign", !.n = @ + 1, !.assigned = TRUE]
    /\ UNCHANGED <<bin_mappings, ret, trialVars, evaluatorVars>>

CallTau(groupby, num_bins) ==
    /\ call.n < MaxOps
    /\ LET r == calculate_tau(df, bin_mappings, "label", groupby, num_bins,
                              "overall_score")
       IN  /\ df' = r.df
           /\ bin_mappings' = r.bin_mappings
           /\ ret' = [tau |-> r.tau, label_bins |-> r.label_bins]
    /\ call' = [fn |-> "calculate_tau", groupby |-> groupby,
                num_bins |-> num_bins, n |-> call.n + 1,
                assigned |-> call.assigned]
    /\ UNCHANGED <<trialVars, evaluatorVars>>

NextCache ==
    \/ \E values \in CacheColumns : AssignColumn(values)
    \/ \E groupby \in {None, "uid"}, num_bins \in BinArgs :
          CallTau(groupby, num_bins)

SpecCache == InitCache /\ [][NextCache]_vars

\* The binnings of a column under every bin count (counts above the number
\* of rows are clamped to it).
Binnings(column) == {map_to_bins(column, b) : b \in 0..Len(column)}

\* C6: the label bins calculate_tau uses are a binning of the target
\* column's current values; a mapping cached from other values is not used.
C6_BinsOfCurrentColumn ==
    call.fn = "calculate_tau" => ret.label_bins \in Binnings(df["label"])

----------------------------------------------------------------------------
(* Direct calls of the Grouped Top-N Selector and of the top-N coverage.   *)

MaxK == 3

TopNFrames == Frames({1}, {0, 1, 2}, {1, 2}, MaxRows)

InitTopN ==
    /\ df \in TopNFrames
    /\ bin_mappings = <<>>
    /\ call \in [fn : {"pd_data_group_top_n"}, ascending : BOOLEAN, k : -1..MaxK]
    /\ ret = [error |-> "pending", index |-> <<>>]
    /\ IdleTrials
    /\ NoEvaluators

CallGroupTopN ==
    /\ call.fn = "pd_data_group_top_n"
    /\ ret.error = "pending"
    /\ ret' = pd_data_group_top_n(df, <<"uid">>, <<"overall_score">>,
                                  call.ascending, call.k)
    /\ UNCHANGED <<df, bin_mappings, call, trialVars, evaluatorVars>>

NextTopN == CallGroupTopN

SpecTopN == InitTopN /\ [][NextTopN]_vars

----------------------------------------------------------------------------
(* C3, C4: the Grouped Top-N Selector.                                     *)

TopNReturned == call.fn = "pd_data_group_top_n" /\ ret.error = "none"

SelectedIn(key) ==
    {i \in Range(ret.index) : KeyOf(df, <<"uid">>, i) = key}

\* C3: for every table and every k, pd_data_group_top_n returns exactly
\* min(group size, k) rows of each group (none when k <= 0).
C3_CountPerGroup ==
    TopNReturned =>
        \A key \in Range(GroupKeys(df, <<"uid">>)) :
            Cardinality(SelectedIn(key))
                = Max(0, Min(GroupSize(df, <<"uid">>, key), call.k))

\* The reference procedure: per group, sort the member rows by the value
\* columns in the requested direction and take the first k.
ReferenceTopN(data, group_cols, val_cols, ascending, k) ==
    {i \in 1..NRows(data) :
        Cardinality({j \in 1..NRows(data) :
            /\ KeyOf(data, group_cols, j) = KeyOf(data, group_cols, i)
            /\ Before(data, val_cols, ascending, j, i)}) < k}

\* C4: the rows pd_data_group_top_n returns are the rows the reference
\* procedure selects.
C4_EqualsReference ==
    TopNReturned =>
        Range(ret.index) = ReferenceTopN(df, <<"uid">>, <<"overall_score">>,
                                         call.ascending, call.k)

\* The same two statements for an ascending sort, where the sorted frame and
\* the group counts list the groups in the same order.
TopNAscendingAgrees ==
    (TopNReturned /\ call.ascending) =>
        /\ Range(ret.index) = ReferenceTopN(df, <<"uid">>, <<"overall_score">>,
                                            call.ascending, call.k)
        /\ \A key \in Range(GroupKeys(df, <<"uid">>)) :
              Cardinality(SelectedIn(key))
                  = Max(0, Min(GroupSize(df, <<"uid">>, key), call.k))

----------------------------------------------------------------------------
(* Direct calls of the coverage evaluators on one frame: up to two calls   *)
(* of the same evaluator, each with its own hyperparameter; `ret` is the   *)
(* log of the calls.                                                       *)

HeadDen == 4

HeadArgs == {NoHyper} \cup {<<Frac(p, HeadDen)>> : p \in 0..HeadDen}

TopNArgs == {NoHyper} \cup {<<Frac(k, 1)>> : k \in 0..MaxK}

CoverageFrames == Frames({-1, 0, 1}, {0, 1}, {1}, MaxRows)

DistinctFrames == Frames({NaN, 1, 2}, {0, 1}, {1}, MaxRows)

GroupedFrames == Frames({0, 1}, {0, 1}, {1, 2}, MaxRows)

\* Ten rows whose target column is 0..9 and whose score equals the target.
ExampleFrame ==
    [label |-> <<0, 1, 2, 3, 4, 5, 6, 7, 8, 9>>,
     overall_score |-> <<0, 1, 2, 3, 4, 5, 6, 7, 8, 9>>,
     uid |-> <<1, 1, 1, 1, 1, 1, 1, 1, 1, 1>>]

ExampleHead == Frac(1, 10)

TopCoverageArgs == HeadArgs \cup {<<ExampleHead>>}

InitCoverage ==
    /\ \/ /\ df \in CoverageFrames
          /\ call \in [fn : {"calculate_top_coverage"},
                       order : SortOrders(df, <<"overall_score">>, FALSE)]
       \/ /\ df = ExampleFrame
          /\ call = [fn |-> "calculate_top_coverage",
                     order |-> sort_values(df, <<"overall_score">>, FALSE)]
       \/ /\ df \in DistinctFrames
          /\ call \in [fn : {"calculate_distinct_top_coverage"},
                       order : SortOrders(df, <<"overall_score">>, FALSE)]
       \/ /\ df \in GroupedFrames
          /\ call \in [fn : {"calculate_top_n_coverage"},
                       order : {sort_values(df, <<"overall_score">>, FALSE)}]
    /\ bin_mappings = <<>>
    /\ ret = <<>>
    /\ IdleTrials
    /\ NoEvaluators

Effective(hyperparameter, default) ==
    IF hyperparameter = NoHyper THEN default ELSE hyperparameter[1]

CallTopCoverage(h) ==
    /\ call.fn = "calculate_top_coverage"
    /\ Len(ret) < 2
    /\ ret' = Append(ret,
                [arg |-> Effective(h, Head005),
                 value |-> calculate_top_coverage(df, "label", h,
                                                  "overall_score", call.order)])
    /\ UNCHANGED <<df, bin_mappings, call, trialVars, evaluatorVars>>

CallDistinctTopCoverage(h) ==
    /\ call.fn = "calculate_distinct_top_coverage"
    /\ Len(ret) < 2
    /\ ret' = Append(ret,
                [arg |-> Effective(h, Head005),
                 value |-> calculate_distinct_top_coverage(df, "label", h,
                                                  "overall_score", call.order)])
    /\ UNCHANGED <<df, bin_mappings, call, trialVars, evaluatorVars>>

CallTopNCoverage(k) ==
    /\ call.fn = "calculate_top_n_coverage"
    /\ Len(ret) < 2
    /\ ret' = Append(ret,
                [arg |-> Effective(k, Frac(DefaultTopN, 1)),
                 value |-> calculate_top_n_coverage(df, "label", "uid", k,
                                                    "overall_score")])
    /\ UNCHANGED <<df, bin_mappings, call, trialVars, evaluatorVars>>

NextCoverage ==
    \/ \E h \in TopCoverageArgs : CallTopCoverage(h)
    \/ \E h \in HeadArgs : CallDistinctTopCoverage(h)
    \/ \E k \in TopNArgs : CallTopNCoverage(k)

SpecCoverage == InitCoverage /\ [][NextCoverage]_vars

----------------------------------------------------------------------------
(* Comparison of returned floats.                                          *)

Sign(x) == IF x < 0 THEN 0 - 1 ELSE 1

\* a <= b as IEEE floats compare: false when either side is nan.
FloatLe(a, b) ==
    IF a.kind = "float" /\ b.kind = "float"
    THEN a.num * Sign(a.den) * b.den * Sign(b.den)
             <= b.num * Sign(b.den) * a.den * Sign(a.den)
    ELSE /\ a.kind \in {"float", "inf", "-inf"}
         /\ b.kind \in {"float", "inf", "-inf"}
         /\ (a.kind = "-inf" \/ b.kind = "inf")

FloatLt(a, b) == FloatLe(a, b) /\ ~FloatLe(b, a)

IsOne(a) == a.kind = "float" /\ a.num = a.den

FracLe(x, y) == x.num * y.den <= y.num * x.den

FracIsOne(x) == x.num = x.den

----------------------------------------------------------------------------
(* C8: zero denominators.                                                  *)

ZeroDenominator ==
    CASE call.fn = "calculate_distinct_top_coverage" -> NUnique(df["label"]) = 0
      [] OTHER -> NanSum(df["label"]) = 0

\* C8: when the denominator of a coverage metric is zero, the evaluator
\* reports an error and returns no numeric value (zero, infinity or NaN).
C8_ZeroDenominatorIsError ==
    (call.fn \in {"calculate_top_coverage", "calculate_distinct_top_coverage",
                  "calculate_top_n_coverage"} /\ ZeroDenominator) =>
        \A i \in DOMAIN ret : IsError(ret[i].value)

----------------------------------------------------------------------------
(* C9, C10: monotonicity in head_percentage and the value at 1.0.          *)

MonotoneAndFull ==
    /\ \A i, j \in DOMAIN ret :
          FracLe(ret[i].arg, ret[j].arg) => FloatLe(ret[i].value, ret[j].value)
    /\ \A i \in DOMAIN ret : FracIsOne(ret[i].arg) => IsOne(ret[i].value)

\* C9 as stated: for every dataset, calculate_top_coverage is monotonically
\* non-decreasing in head_percentage and equals 1.0 at head_percentage = 1.0.
C9_TopCoverageMonotoneAnyFrame ==
    call.fn = "calculate_top_coverage" => MonotoneAndFull

NonNegativeMass ==
    /\ \A i \in DOMAIN df["label"] : df["label"][i] >= 0
    /\ SeqSum(df["label"]) > 0

\* C9, amended: for every dataset whose target column is non-negative with
\* a positive sum, calculate_top_coverage is monotonically non-decreasing
\* in head_percentage and equals 1.0 at head_percentage = 1.0.
C9_TopCoverageMonotone ==
    (call.fn = "calculate_top_coverage" /\ NonNegativeMass) => MonotoneAndFull

C9_Witness ==
    /\ call.fn = "calculate_top_coverage"
    /\ NonNegativeMass
    /\ Len(ret) = 2
    /\ FracIsOne(ret[2].arg)
    /\ IsOne(ret[2].value)
    /\ FloatLt(ret[1].value, ret[2].value)
    /\ ret[1].value.num > 0

NoMissingLabel == \A i \in DOMAIN df["label"] : df["label"][i] # NaN

----------------------------------------------------------------------------
(* C11: the value of calculate_top_coverage.                               *)

\* floor(n * x) for a fraction x >= 0: the k with k <= n * x < k + 1.
FloorOfProduct(n, x) ==
    CHOOSE k \in 0..(n * x.num) :
        k * x.den <= n * x.num /\ n * x.num < (k + 1) * x.den

\* The sum of a column over a set of rows.
SumOver(column, rows) ==
    SeqSum([i \in DOMAIN column |-> IF i \in rows THEN column[i] ELSE 0])

\* The first k rows of the frame in descending order of the score, as the
\* sort placed them: no row outside them has a higher score than one inside.
HeadRows(k) == {call.order[p] : p \in 1..k}

HeadIsTopScored(k) ==
    \A i \in HeadRows(k), j \in (1..NRows(df)) \ HeadRows(k) :
        df["overall_score"][i] >= df["overall_score"][j]

\* C11: calculate_top_coverage returns the sum of the target column over the
\* first floor(row_count * head_percentage) rows in descending score order,
\* divided by the column's total sum; on the ten-row frame 0..9 with
\* head_percentage = 0.1 it returns 9/45 = 0.2.
C11_TopCoverageValue ==
    call.fn = "calculate_top_coverage" =>
        \A i \in DOMAIN ret :
            LET k == FloorOfProduct(NRows(df), ret[i].arg)
            IN  /\ HeadIsTopScored(k)
                /\ ret[i].value = Divide(SumOver(df["label"], HeadRows(k)),
                                         SumOver(df["label"], 1..NRows(df)))
                /\ (df = ExampleFrame /\ ret[i].arg = ExampleHead) =>
                       /\ ret[i].value.kind = "float"
                       /\ ret[i].value.num * 45 = 9 * ret[i].value.den
                       /\ ret[i].value.num * 10 = 2 * ret[i].value.den

C11_Witness ==
    /\ df = ExampleFrame
    /\ Len(ret) = 1
    /\ ret[1].arg = ExampleHead
    /\ ret[1].value = Divide(9, 45)

----------------------------------------------------------------------------
(* Direct calls of the Binning Engine on one array with several bin        *)
(* counts.  The bin count is a count of bins, num_bins >= 1.               *)

BinValues == {0 - 1, 0, 1, 2, 3}

BinCounts == 1..(MaxBins + 1)

InitBins ==
    /\ df \in [label : SeqsUpTo(BinValues, MaxRows)]
    /\ call = [fn |-> "init", num_bins |-> 0]
    /\ ret = <<>>
    /\ bin_mappings = <<>>
    /\ IdleTrials
    /\ NoEvaluators

CallMapToBins(num_bins) ==
    /\ call' = [fn |-> "map_to_bins", num_bins |-> num_bins]
    /\ ret' = map_to_bins(df["label"], num_bins)
    /\ UNCHANGED <<df, bin_mappings, trialVars, evaluatorVars>>

NextBins == \E num_bins \in BinCounts : CallMapToBins(num_bins)

SpecBins == InitBins /\ [][NextBins]_vars

BinsReturned == call.fn = "map_to_bins"

NonZero(s) == Range(s) \ {0}

C13_ZeroBinIffZero ==
    BinsReturned =>
        /\ Len(ret) = Len(df["label"])
        /\ \A i \in DOMAIN ret : ret[i] >= 0 /\ (ret[i] = 0 <=> df["label"][i] = 0)

C13_Witness ==
    /\ BinsReturned
    /\ Len(ret) = 3
    /\ df["label"][1] # 0 /\ df["label"][2] = 0 /\ df["label"][3] # 0
    /\ ret[1] > ret[3] /\ ret[2] = 0

\* C17: on non-zero values the binning preserves order: data[i] <= data[j]
\* implies bins[i] <= bins[j], so equal values share a bin.
C17_OrderPreserving ==
    BinsReturned =>
        \A i, j \in DOMAIN ret :
            (df["label"][i] # 0 /\ df["label"][j] # 0
                /\ df["label"][i] <= df["label"][j]) => ret[i] <= ret[j]

C17_Witness ==
    /\ BinsReturned
    /\ df["label"] = <<3, 0 - 1, 1>>
    /\ ret = <<3, 1, 2>>

----------------------------------------------------------------------------
(* C14: the value of calculate_tau on a calculator with no cached mapping. *)

\* The two columns order every pair of rows the same way.
SameOrdering(x, y) ==
    \A i, j \in DOMAIN x : (x[i] < x[j]) <=> (y[i] < y[j])

\* The returned float lies in [-1, 1]: it is not nan.
TauInRange(v) ==
    IF v.kind = "mean" THEN Len(v.taus) > 0 /\ ~HasNan(v.taus)
    ELSE v.kind = "tau"

\* The returned float is exactly 1.0.
TauIsOne(v) ==
    IF v.kind = "mean"
    THEN /\ Len(v.taus) > 0
         /\ \A i \in DOMAIN v.taus :
               /\ v.taus[i].kind = "tau"
               /\ v.taus[i].s > 0
               /\ v.taus[i].s * v.taus[i].s = v.taus[i].a * v.taus[i].b
    ELSE v.kind = "tau" /\ v.s > 0 /\ v.s * v.s = v.a * v.b

FirstCall == call.fn = "calculate_tau" /\ call.n = 1

\* C14: calculate_tau returns a value in [-1, 1] for every input, grouped
\* or ungrouped, and exactly 1.0 when the target column and the score
\* column induce identical row orderings.
C14_TauUnitAndBounded ==
    FirstCall =>
        /\ TauInRange(ret.tau)
        /\ SameOrdering(df["label"], df["overall_score"]) => TauIsOne(ret.tau)

----------------------------------------------------------------------------
(* C15: what the dispatcher does with an evaluator's return value.         *)

\* The element is the dispatcher's own sum over the evaluator's result.
SummedByDispatcher(v) == v.kind = "external" /\ v.part = "sum"

\* C15: every element of the target vector is the value its evaluator
\* returned (whole, or the component the evaluator returns it in); the
\* dispatcher applies no arithmetic of its own to it.
C15_PureRouting ==
    \A t \in Trials : \A i \in DOMAIN targets[t] :
        ~SummedByDispatcher(targets[t][i].value)

----------------------------------------------------------------------------
(* C16: calculate_tau against a fresh calculator on the same dataset.      *)

\* The dataset as loaded: the frame without the bin column a grouped call
\* leaves behind.
Dataset == [c \in {"label", "overall_score", "uid"} |-> df[c]]

\* What the last call returns on a calculator that has served no call.
FreshTau ==
    calculate_tau(Dataset, <<>>, "label", call.groupby, call.num_bins,
                  "overall_score").tau

\* C16: while the dataset is unchanged, the value calculate_tau returns for
\* its arguments is the value a fresh calculator returns for them, whatever
\* calls were made before (in particular calls with another num_bins).
C16_TauIndependentOfHistory ==
    (call.fn = "calculate_tau" /\ ~call.assigned) =>
        SameValue(ret.tau, FreshTau)

====
